---------------------------- MODULE Spec2Model ----------------------------
(***************************************************************************)
(* The round controller of the Elias word game (src/aliace_game/game.py,   *)
(* words.py, database.py): the main pygame loop, the start_game sequence,  *)
(* the guessed / skip clicks and the countdown threads that start_timer    *)
(* spawns.  The main thread and every timer thread are interleaved at the  *)
(* level of one attribute read or write of the shared EliasGame object.    *)
(*                                                                         *)
(* Time is counted in ticks of 1/Resolution second; start_time and         *)
(* end_time are in ticks, time_left and selected_time in whole seconds     *)
(* as in the source (time_left = int(end_time - current_time)).            *)
(***************************************************************************)
EXTENDS Integers, Sequences, FiniteSets, TLC

\* ------------------------------------------------------------- bounds
\* clock ticks per second
Resolution == 2
\* the game's TIME_OPTIONS, scaled down to 1..MaxTime seconds
MaxTime == 1
\* number of start_game calls (and so of timer threads) in one run
MaxRounds == 2
\* the clock stops after MaxRounds rounds of the longest duration
MaxNow == MaxRounds * MaxTime * Resolution
\* number of changes made to the store from the word-management screen
MaxEdits == 1

\* ---------------------------------------------------------- constants
DEFAULT_GAME_DURATION == 120
TIME_OPTIONS == 1..MaxTime
SCREEN_MENU == "menu"
SCREEN_GAME == "game"
SCREEN_RESULTS == "results"
SCREEN_DIFFICULTY == "difficulty"
SCREEN_MANAGE == "manage"
Difficulties == {"easy", "medium", "hard"}
\* current_word before the first round, and the two sentinel texts
None == "None"
NO_WORDS == "Net slov"
ALL_USED == "Vse slova ispolzovany!"

Threads == 1..MaxRounds

VARIABLES
  db,                  \* the words table: set of <<word, difficulty>> rows
  words,               \* Words.words: the pool of the round, popped from the end
  wm_difficulty,       \* Words.selected_difficulty
  score, current_word, game_active, game_finished,
  time_left, selected_time, start_time, end_time,
  current_screen, selected_difficulty,
  timer_running,
  pc,                  \* main thread: "loop", or the line of start_game it is at
  tpc,                 \* tpc[t]: the line of timer_function thread t is at
  tcur,                \* tcur[t]: the thread's local current_time
  now,                 \* the wall clock, in ticks
  round,               \* history: number of start_game calls so far
  guessed,             \* history: guessed clicks accepted in this round
  skipped,             \* history: skip clicks accepted in this round
  shown,               \* history: store words shown in this round, in order
  ignored,             \* history: a click of this round was ignored
  tobs,                \* history: tobs[t] iff thread t is in the expiry branch
                       \*   and its test on line 294 ran on an active round
  table,               \* the words table on disk: "none", "legacy" (no
                       \*   difficulty column) or "full"
  store_state,         \* WordDatabase: "new" before __init__, then "ready",
                       \*   or "crashed" when __init__ raised
  result,              \* the value the last store call returned
  last_op,             \* history: <<the last store call, whether the word it
                       \*   names (for init_database: the table) was there>>
  word_being_edited,   \* the word of edit mode, None outside edit mode
  edits                \* history: store changes made from the manage screen

gameVars  == <<score, current_word, game_active, game_finished, time_left,
               selected_time, start_time, end_time, current_screen,
               selected_difficulty, timer_running>>
manageVars == <<word_being_edited, edits>>
storeVars == <<table, store_state, result, last_op, manageVars>>
wordVars  == <<db, words, wm_difficulty, storeVars>>
timerVars == <<tpc, tcur>>
histVars  == <<round, guessed, skipped, shown, ignored, tobs>>
vars == <<gameVars, wordVars, timerVars, histVars, pc, now>>

\* ------------------------------------------------------------ helpers
Range(s) == {s[i] : i \in 1..Len(s)}

\* all orders of a set of words: what ORDER BY RANDOM() can return
Perms(S) ==
  {s \in [1..Cardinality(S) -> S] : \A i, j \in 1..Cardinality(S) : s[i] = s[j] => i = j}

\* python's int(): truncation towards zero, of x ticks taken as seconds
IntSeconds(x) == IF x >= 0 THEN x \div Resolution ELSE -((-x) \div Resolution)

\* the words table a run finds on disk (word TEXT NOT NULL UNIQUE): a small
\* vocabulary with a pool of two words (medium), of one word (easy) and of
\* no word (hard)
InitStores == { {<<"a", "medium">>, <<"b", "medium">>, <<"c", "easy">>} }

\* mutant: the WHERE difficulty = ? filter is missing
get_random_words_unfiltered(store, difficulty) ==
  Perms({r[1] : r \in store})

\* WordDatabase.get_random_words(difficulty): SELECT word FROM words WHERE
\* difficulty = ? ORDER BY RANDOM(): the rows of that difficulty, in any order
get_random_words(store, difficulty) ==
  Perms({r[1] : r \in {q \in store : q[2] = difficulty}})

Init ==
  /\ db \in InitStores
  /\ words = <<>>
  /\ wm_difficulty = "medium"
  /\ score = 0
  /\ current_word = None
  /\ game_active = FALSE
  /\ game_finished = FALSE
  /\ time_left = DEFAULT_GAME_DURATION
  /\ selected_time = DEFAULT_GAME_DURATION
  /\ start_time = 0
  /\ end_time = 0
  /\ current_screen = SCREEN_MENU
  /\ selected_difficulty = "medium"
  /\ timer_running = FALSE
  /\ pc = "loop"
  /\ tpc = [t \in Threads |-> "none"]
  /\ tcur = [t \in Threads |-> 0]
  /\ now = 0
  /\ round = 0
  /\ guessed = 0
  /\ skipped = 0
  /\ shown = <<>>
  /\ ignored = FALSE
  /\ tobs = [t \in Threads |-> FALSE]
  /\ table = "full"
  /\ store_state = "ready"
  /\ result = FALSE
  /\ last_op = <<"none", FALSE>>
  /\ word_being_edited = None
  /\ edits = 0

\* ------------------------------------------------- main thread: events
\* menu screen, "start game" button: show_difficulty_selection
MenuStart ==
  /\ pc = "loop"
  /\ current_screen = SCREEN_MENU
  /\ current_screen' = SCREEN_DIFFICULTY
  /\ UNCHANGED <<score, current_word, game_active, game_finished, time_left,
                 selected_time, start_time, end_time, selected_difficulty,
                 timer_running, wordVars, timerVars, histVars, pc, now>>

\* mutant: the difficulty buttons also answer on the game screen
SelectDifficulty_anyscreen ==
  /\ pc = "loop"
  /\ current_screen \in {SCREEN_DIFFICULTY, SCREEN_GAME}
  /\ \E d \in Difficulties : selected_difficulty' = d
  /\ UNCHANGED <<score, current_word, game_active, game_finished, time_left,
                 selected_time, start_time, end_time, current_screen,
                 timer_running, wordVars, timerVars, histVars, pc, now>>

\* difficulty screen, one of the three difficulty buttons: select_difficulty
SelectDifficulty ==
  /\ pc = "loop"
  /\ current_screen = SCREEN_DIFFICULTY
  /\ \E d \in Difficulties : selected_difficulty' = d
  /\ UNCHANGED <<score, current_word, game_active, game_finished, time_left,
                 selected_time, start_time, end_time, current_screen,
                 timer_running, wordVars, timerVars, histVars, pc, now>>

\* difficulty screen, "back" button
BackFromDifficulty ==
  /\ pc = "loop"
  /\ current_screen = SCREEN_DIFFICULTY
  /\ current_screen' = SCREEN_MENU
  /\ UNCHANGED <<score, current_word, game_active, game_finished, time_left,
                 selected_time, start_time, end_time, selected_difficulty,
                 timer_running, wordVars, timerVars, histVars, pc, now>>

\* a deadline set from time t on still lies within the clock's range
InHorizon(t) == t + MaxTime * Resolution <= MaxNow

\* ----------------------------------------- main thread: start_game
\* The steps of start_game are the points where a timer thread can see or
\* change what start_game reads and writes: game_active, game_finished,
\* time_left and end_time.  Assignments no timer thread touches (score,
\* current_screen, the word pool, current_word) are joined to a neighbour.

\* difficulty screen, "confirm" button: the dropdown's time is stored and
\* start_game begins: self.score = 0; self.game_active = True
Confirm ==
  /\ pc = "loop"
  /\ current_screen = SCREEN_DIFFICULTY
  /\ round < MaxRounds
  /\ InHorizon(now)
  /\ \E t \in TIME_OPTIONS : selected_time' = t
  /\ score' = 0
  /\ game_active' = TRUE
  /\ pc' = "L306"
  /\ round' = round + 1 /\ guessed' = 0 /\ skipped' = 0 /\ shown' = <<>>
  /\ ignored' = FALSE
  /\ UNCHANGED <<current_word, game_finished, time_left,
                 start_time, end_time, current_screen, selected_difficulty,
                 timer_running, wordVars, timerVars, now, tobs>>

\* self.game_finished = False; self.current_screen = SCREEN_GAME
SG_finished ==
  /\ pc = "L306" /\ pc' = "L308"
  /\ game_finished' = FALSE
  /\ current_screen' = SCREEN_GAME
  /\ UNCHANGED <<score, current_word, game_active, time_left,
                 selected_time, start_time, end_time,
                 selected_difficulty, timer_running, wordVars, timerVars,
                 now, histVars>>

\* self.time_left = self.selected_time; self.start_time = time.time()
SG_time_left ==
  /\ pc = "L308" /\ pc' = "L310"
  /\ time_left' = selected_time
  /\ start_time' = now
  /\ UNCHANGED <<score, current_word, game_active, game_finished,
                 selected_time, end_time, current_screen,
                 selected_difficulty, timer_running, wordVars, timerVars,
                 now, histVars>>

\* self.end_time = self.start_time + self.time_left (time_left is read back)
SG_end_time ==
  /\ pc = "L310" /\ pc' = "L313"
  /\ end_time' = start_time + time_left * Resolution
  /\ UNCHANGED <<score, current_word, game_active, game_finished, time_left,
                 selected_time, start_time, current_screen,
                 selected_difficulty, timer_running, wordVars, timerVars,
                 now, histVars>>

\* Words.get_random_word(): None on an empty pool, else the popped last word
pool_empty(pool) == pool = <<>>
popped(pool) == pool[Len(pool)]
\* mutant: the word is read but not removed (words[-1] for words.pop())
pool_rest_keeps(pool) == pool
pool_rest(pool) == SubSeq(pool, 1, Len(pool) - 1)

\* mutant: the pool is re-read only when the difficulty changes
set_difficulty_cached(difficulty) ==
  /\ wm_difficulty' = difficulty
  /\ IF difficulty = wm_difficulty
       THEN words' = words
       ELSE words' \in get_random_words(db, difficulty)
  /\ UNCHANGED <<db, storeVars>>

\* Words.set_difficulty(difficulty)
set_difficulty(difficulty) ==
  /\ wm_difficulty' = difficulty
  /\ words' \in get_random_words(db, difficulty)
  /\ UNCHANGED <<db, storeVars>>

\* self.word_manager.set_difficulty(self.selected_difficulty)
SG_set_difficulty ==
  /\ pc = "L313" /\ pc' = "L316"
  /\ set_difficulty(selected_difficulty)
  /\ UNCHANGED <<gameVars, timerVars, now, histVars>>

\* self.current_word = get_random_word(), "no words" when it is None; then
\* start_timer: timer_running = True and a new thread running timer_function
SG_first_word ==
  /\ pc = "L316" /\ pc' = "loop"
  /\ IF pool_empty(words)
       THEN /\ current_word' = NO_WORDS
            /\ UNCHANGED <<words, shown>>
       ELSE /\ current_word' = popped(words)
            /\ words' = pool_rest(words)
            /\ shown' = Append(shown, popped(words))
  /\ timer_running' = TRUE
  /\ tpc' = [tpc EXCEPT ![round] = "loop"]
  /\ UNCHANGED <<score, game_active, game_finished, time_left,
                 selected_time, start_time, end_time, current_screen,
                 selected_difficulty, db, wm_difficulty, storeVars, tcur,
                 now, round, guessed, skipped, ignored, tobs>>

start_game ==
  \/ SG_finished \/ SG_time_left \/ SG_end_time
  \/ SG_set_difficulty \/ SG_first_word

\* ------------------------------------- main thread: the game screen
\* mutant: an exhausted pool shows the sentinel and leaves the round to the timer
next_word_waits ==
  IF pool_empty(words)
    THEN /\ current_word' = ALL_USED
         /\ UNCHANGED <<words, shown, game_active, game_finished>>
    ELSE /\ current_word' = popped(words)
         /\ words' = pool_rest(words)
         /\ shown' = Append(shown, popped(words))
         /\ UNCHANGED <<game_active, game_finished>>

\* next_word: the next word of the pool, or the end of the round
next_word ==
  IF pool_empty(words)
    THEN /\ current_word' = ALL_USED
         /\ game_active' = FALSE
         /\ game_finished' = TRUE
         /\ UNCHANGED <<words, shown>>
    ELSE /\ current_word' = popped(words)
         /\ words' = pool_rest(words)
         /\ shown' = Append(shown, popped(words))
         /\ UNCHANGED <<game_active, game_finished>>

\* what a click on the game screen leaves alone, accepted or not
ClickFrame ==
  UNCHANGED <<time_left, selected_time, start_time, end_time, current_screen,
              selected_difficulty, timer_running, db, wm_difficulty,
              storeVars, timerVars, pc, now, round, tobs>>

\* a click that neither branch of the handler takes
ClickIgnored ==
  /\ ignored' = TRUE
  /\ UNCHANGED <<score, current_word, game_active, game_finished,
                 words, guessed, skipped, shown>>

\* mutant: the handler does not test game_active
ClickGuessed_unguarded ==
  /\ pc = "loop"
  /\ current_screen = SCREEN_GAME
  /\ score' = score + 1
  /\ next_word
  /\ guessed' = guessed + 1
  /\ UNCHANGED <<skipped, ignored>>
  /\ ClickFrame

\* a left click on the "guessed" button (it overlaps no other button):
\* if self.game_active: self.score += 1; self.next_word()
ClickGuessed ==
  /\ pc = "loop"
  /\ current_screen = SCREEN_GAME
  /\ IF game_active
       THEN /\ score' = score + 1
            /\ next_word
            /\ guessed' = guessed + 1
            /\ UNCHANGED <<skipped, ignored>>
       ELSE ClickIgnored
  /\ ClickFrame

\* mutant: a skip scores like a guess
ClickSkip_scores ==
  /\ pc = "loop"
  /\ current_screen = SCREEN_GAME
  /\ IF game_active
       THEN /\ score' = score + 1
            /\ next_word
            /\ skipped' = skipped + 1
            /\ UNCHANGED <<guessed, ignored>>
       ELSE ClickIgnored
  /\ ClickFrame

\* a left click on the "skip" button: if self.game_active: self.next_word()
ClickSkip ==
  /\ pc = "loop"
  /\ current_screen = SCREEN_GAME
  /\ IF game_active
       THEN /\ score' = score
            /\ next_word
            /\ skipped' = skipped + 1
            /\ UNCHANGED <<guessed, ignored>>
       ELSE ClickIgnored
  /\ ClickFrame

\* a left click on the "play again" button of the game screen
ClickReplay ==
  /\ pc = "loop"
  /\ current_screen = SCREEN_GAME
  /\ ~game_active /\ game_finished
  /\ current_screen' = SCREEN_DIFFICULTY
  /\ UNCHANGED <<score, current_word, game_active, game_finished, time_left,
                 selected_time, start_time, end_time, selected_difficulty,
                 timer_running, wordVars, timerVars, histVars, pc, now>>

\* mutant: run() shows the results as soon as the round is not active
RunShowResults_unfinished ==
  /\ pc = "loop"
  /\ current_screen = SCREEN_GAME
  /\ ~game_active
  /\ current_screen' = SCREEN_RESULTS
  /\ UNCHANGED <<score, current_word, game_active, game_finished, time_left,
                 selected_time, start_time, end_time, selected_difficulty,
                 timer_running, wordVars, timerVars, histVars, pc, now>>

\* run(): a finished round on the game screen switches to the results screen
RunShowResults ==
  /\ pc = "loop"
  /\ current_screen = SCREEN_GAME
  /\ ~game_active /\ game_finished
  /\ current_screen' = SCREEN_RESULTS
  /\ UNCHANGED <<score, current_word, game_active, game_finished, time_left,
                 selected_time, start_time, end_time, selected_difficulty,
                 timer_running, wordVars, timerVars, histVars, pc, now>>

\* results screen, "play again" button
ResultsReplay ==
  /\ pc = "loop"
  /\ current_screen = SCREEN_RESULTS
  /\ current_screen' = SCREEN_DIFFICULTY
  /\ UNCHANGED <<score, current_word, game_active, game_finished, time_left,
                 selected_time, start_time, end_time, selected_difficulty,
                 timer_running, wordVars, timerVars, histVars, pc, now>>

\* ------------------------------------------------------ timer threads
\* One step per read or write of a shared attribute; time.sleep(0.1) is the
\* time a thread spends before its next T_loop step.
TimerFrame ==
  UNCHANGED <<score, current_word, selected_time, start_time, end_time,
              current_screen, selected_difficulty, timer_running,
              wordVars, round, guessed, skipped, shown, ignored, pc, now>>

\* while self.timer_running and self.game_active
T_loop(t) ==
  /\ tpc[t] = "loop"
  /\ tpc' = [tpc EXCEPT ![t] = IF timer_running /\ game_active THEN "L293" ELSE "done"]
  /\ UNCHANGED <<tcur, time_left, game_active, game_finished>>
  /\ tobs' = tobs
  /\ TimerFrame

\* current_time = time.time()
T_read(t) ==
  /\ tpc[t] = "L293"
  /\ tpc' = [tpc EXCEPT ![t] = "L294"]
  /\ tcur' = [tcur EXCEPT ![t] = now]
  /\ UNCHANGED <<time_left, game_active, game_finished>>
  /\ tobs' = tobs
  /\ TimerFrame

\* if current_time < self.end_time
T_compare(t) ==
  /\ tpc[t] = "L294"
  /\ tpc' = [tpc EXCEPT ![t] = IF tcur[t] < end_time THEN "L295" ELSE "L297"]
  /\ UNCHANGED <<tcur, time_left, game_active, game_finished>>
  /\ tobs' = [tobs EXCEPT ![t] = game_active /\ tcur[t] >= end_time]
  /\ TimerFrame

\* mutant: the countdown write also marks the round as running again
T_update_reactivates(t) ==
  /\ tpc[t] = "L295"
  /\ time_left' = IntSeconds(end_time - tcur[t])
  /\ tpc' = [tpc EXCEPT ![t] = "loop"]
  /\ tcur' = [tcur EXCEPT ![t] = 0]
  /\ game_active' = TRUE
  /\ game_finished' = FALSE
  /\ tobs' = tobs
  /\ TimerFrame

\* self.time_left = int(self.end_time - current_time)
T_update(t) ==
  /\ tpc[t] = "L295"
  /\ time_left' = IntSeconds(end_time - tcur[t])
  /\ tpc' = [tpc EXCEPT ![t] = "loop"]
  /\ tcur' = [tcur EXCEPT ![t] = 0]
  /\ UNCHANGED <<game_active, game_finished>>
  /\ tobs' = tobs
  /\ TimerFrame

\* self.time_left = 0
T_expire_time(t) ==
  /\ tpc[t] = "L297"
  /\ time_left' = 0
  /\ tpc' = [tpc EXCEPT ![t] = "L298"]
  /\ tcur' = [tcur EXCEPT ![t] = 0]
  /\ UNCHANGED <<game_active, game_finished>>
  /\ tobs' = tobs
  /\ TimerFrame

\* mutant: the expiry also replaces the word on the screen
T_expire_active_blanks(t) ==
  /\ tpc[t] = "L298"
  /\ game_active' = FALSE
  /\ current_word' = ALL_USED
  /\ tpc' = [tpc EXCEPT ![t] = "L299"]
  /\ UNCHANGED <<tcur, time_left, game_finished>>
  /\ tobs' = tobs
  /\ UNCHANGED <<score, selected_time, start_time, end_time,
                 current_screen, selected_difficulty, timer_running,
                 wordVars, round, guessed, skipped, shown, ignored, pc, now>>

\* self.game_active = False
T_expire_active(t) ==
  /\ tpc[t] = "L298"
  /\ game_active' = FALSE
  /\ tpc' = [tpc EXCEPT ![t] = "L299"]
  /\ UNCHANGED <<tcur, time_left, game_finished>>
  /\ tobs' = tobs
  /\ TimerFrame

\* self.game_finished = True
T_expire_finished(t) ==
  /\ tpc[t] = "L299"
  /\ game_finished' = TRUE
  /\ tpc' = [tpc EXCEPT ![t] = "loop"]
  /\ UNCHANGED <<tcur, time_left, game_active>>
  /\ tobs' = [tobs EXCEPT ![t] = FALSE]
  /\ TimerFrame

timer_function(t) ==
  \/ T_loop(t) \/ T_read(t) \/ T_compare(t) \/ T_update(t)
  \/ T_expire_time(t) \/ T_expire_active(t) \/ T_expire_finished(t)

\* ----------------------------------------------------------- the clock
\* one tick of wall-clock time; a start_game that has not read the clock
\* yet keeps its deadline within the clock's range
Tick ==
  /\ now < MaxNow
  /\ pc \in {"L306", "L308"} => InHorizon(now + 1)
  /\ now' = now + 1
  /\ UNCHANGED <<gameVars, wordVars, timerVars, histVars, pc>>

MainStep ==
  \/ MenuStart \/ SelectDifficulty \/ BackFromDifficulty \/ Confirm
  \/ start_game
  \/ ClickGuessed \/ ClickSkip \/ ClickReplay
  \/ RunShowResults \/ ResultsReplay

Next ==
  \/ MainStep
  \/ \E t \in Threads : timer_function(t)
  \/ Tick

Spec == Init /\ [][Next]_vars

\* The scheduling the code relies on: the clock advances, every timer
\* thread that can take a step takes one, and the main thread goes on with
\* start_game and with run()'s switch to the results screen.  Nothing
\* makes the player click.
Fairness ==
  /\ WF_vars(Tick)
  /\ \A t \in Threads : WF_vars(timer_function(t))
  /\ WF_vars(start_game)
  /\ WF_vars(RunShowResults)

FairSpec == Spec /\ Fairness

\* ------------------------------------------------------ the word store
\* WordDatabase and Words taken alone: the constructor on the file it
\* finds, then any sequence of calls of the Words methods.  The game
\* object is not involved and its fields keep their initial values.

\* the texts the calls are made with
StoreNames == {"a", "b", "c", "d"}
\* the difficulty of a row of a table that has no difficulty column
NULL == "NULL"

\* init_database's default_words, scaled down to one or two words for
\* each of the three difficulties
default_words ==
  {<<"a", "medium">>, <<"b", "medium">>, <<"c", "easy">>, <<"d", "hard">>}

\* the files the constructor can find: no words table, a table without
\* the difficulty column (empty or not), a complete table (empty or not)
OnDisk ==
  {<<"none", {}>>}
    \cup {<<"legacy", {<<w, NULL>> : w \in S}>> : S \in SUBSET {"a"}}
    \cup {<<"full", rows>> : rows \in {{}} \cup InitStores}

StoreInit ==
  /\ \E f \in OnDisk : table = f[1] /\ db = f[2]
  /\ store_state = "new"
  /\ result = FALSE
  /\ last_op = <<"none", FALSE>>
  /\ word_being_edited = None
  /\ edits = 0
  /\ words = <<>>
  /\ wm_difficulty = "medium"
  /\ score = 0
  /\ current_word = None
  /\ game_active = FALSE
  /\ game_finished = FALSE
  /\ time_left = DEFAULT_GAME_DURATION
  /\ selected_time = DEFAULT_GAME_DURATION
  /\ start_time = 0
  /\ end_time = 0
  /\ current_screen = SCREEN_MENU
  /\ selected_difficulty = "medium"
  /\ timer_running = FALSE
  /\ pc = "loop"
  /\ tpc = [t \in Threads |-> "none"]
  /\ tcur = [t \in Threads |-> 0]
  /\ now = 0
  /\ round = 0
  /\ guessed = 0
  /\ skipped = 0
  /\ shown = <<>>
  /\ ignored = FALSE
  /\ tobs = [t \in Threads |-> FALSE]

\* what a call on the store leaves alone
StoreFrame == UNCHANGED <<gameVars, timerVars, histVars, pc, now>>

\* WordDatabase.init_database, called by the constructor.  PRAGMA
\* table_info lists no column for a missing table, so 'difficulty' is not
\* among them and ALTER TABLE runs: it raises OperationalError on a missing
\* table, and on a table without the column it adds it with the default
\* 'medium'.  CREATE TABLE IF NOT EXISTS runs only when the table is
\* already complete.  An empty table is then filled with default_words.
init_database ==
  /\ store_state = "new"
  /\ IF table = "none"
       THEN /\ store_state' = "crashed"
            /\ UNCHANGED <<table, db>>
       ELSE /\ store_state' = "ready"
            /\ table' = "full"
            /\ LET rows == IF table = "legacy"
                             THEN {<<r[1], "medium">> : r \in db}
                             ELSE db
               IN  db' = IF rows = {} THEN default_words ELSE rows
  /\ last_op' = <<"init_database", table # "none">>
  /\ UNCHANGED <<result, words, wm_difficulty, manageVars>>
  /\ StoreFrame

\* the texts of the rows of a table
Texts(store) == {r[1] : r \in store}

\* WordDatabase.word_exists: SELECT 1 FROM words WHERE word = ?
word_exists(store, word) == \E r \in store : r[1] = word

\* WordDatabase.get_word_info: the (word, difficulty) rows with that text
get_word_info(store, word) == {r \in store : r[1] = word}

\* WordDatabase.get_all_words: every (word, difficulty) row (the ORDER BY
\* word of the listing is not modelled)
get_all_words(store) == store

\* WordDatabase.get_words_by_difficulty: the same query as the filtered
\* get_random_words
get_words_by_difficulty(store, difficulty) ==
  Perms({r[1] : r \in {q \in store : q[2] = difficulty}})

\* WordDatabase.get_word_count: SELECT COUNT(*) FROM words
get_word_count(store) == Cardinality(store)

\* mutant: every group is given the count of the whole table
get_word_count_by_difficulty_total(store) ==
  [d \in {r[2] : r \in store} |-> Cardinality(store)]

\* WordDatabase.get_word_count_by_difficulty: SELECT difficulty, COUNT(*)
\* ... GROUP BY difficulty: one entry for each difficulty that has a row
get_word_count_by_difficulty(store) ==
  [d \in {r[2] : r \in store} |-> Cardinality({r \in store : r[2] = d})]

\* mutant: INSERT OR REPLACE, the stored row takes the new difficulty
db_add_word_replaces(store, word, difficulty) ==
  [ok |-> TRUE,
   rows |-> {r \in store : r[1] # word} \cup {<<word, difficulty>>}]

\* mutant: the INSERT is not stopped by the UNIQUE constraint
db_add_word_no_unique(store, word, difficulty) ==
  [ok |-> TRUE, rows |-> store \cup {<<word, difficulty>>}]

\* WordDatabase.add_word: INSERT; the UNIQUE constraint on word raises
\* IntegrityError, which is answered with False
db_add_word(store, word, difficulty) ==
  IF word \in Texts(store)
    THEN [ok |-> FALSE, rows |-> store]
    ELSE [ok |-> TRUE, rows |-> store \cup {<<word, difficulty>>}]

\* mutant: the deletion always reports success
db_remove_word_reports_ok(store, word) ==
  [ok |-> TRUE, rows |-> {r \in store : r[1] # word}]

\* WordDatabase.remove_word: DELETE ... WHERE word = ?; rowcount > 0
db_remove_word(store, word) ==
  [ok |-> word \in Texts(store), rows |-> {r \in store : r[1] # word}]

\* mutant: the UPDATE overwrites whatever the new text collides with
db_update_word_overwrites(store, old_word, new_word, difficulty) ==
  [ok |-> TRUE,
   rows |-> {IF r[1] = old_word THEN <<new_word, difficulty>> ELSE r :
               r \in {q \in store : q[1] # new_word \/ q[1] = old_word}}]

\* WordDatabase.update_word: UPDATE ... SET word, difficulty WHERE word = ?;
\* False on IntegrityError (a matched row would take the text of another
\* row), True otherwise, whether or not a row matched
db_update_word(store, old_word, new_word, difficulty) ==
  IF old_word \in Texts(store) /\ new_word # old_word /\ new_word \in Texts(store)
    THEN [ok |-> FALSE, rows |-> store]
    ELSE [ok |-> TRUE,
          rows |-> {IF r[1] = old_word THEN <<new_word, difficulty>> ELSE r :
                      r \in store}]

\* Words.add_word: the pool is re-read when the word was added with the
\* difficulty the pool was read for
Words_add_word(word, difficulty) ==
  /\ store_state = "ready"
  /\ LET r == db_add_word(db, word, difficulty)
     IN  /\ db' = r.rows
         /\ result' = r.ok
         /\ IF r.ok /\ difficulty = wm_difficulty
              THEN words' \in get_random_words(r.rows, wm_difficulty)
              ELSE words' = words
  /\ last_op' = <<"add_word", word \in Texts(db)>>
  /\ UNCHANGED <<table, store_state, wm_difficulty>>
  /\ StoreFrame

\* add_word called on the store alone
add_word(word, difficulty) ==
  Words_add_word(word, difficulty) /\ UNCHANGED manageVars

\* mutant: the deletion is reported but the row stays
remove_word_keeps_row(word) ==
  /\ store_state = "ready"
  /\ result' = db_remove_word(db, word).ok
  /\ db' = db
  /\ words' \in get_random_words(db, wm_difficulty)
  /\ last_op' = <<"remove_word", word \in Texts(db)>>
  /\ UNCHANGED <<table, store_state, wm_difficulty, manageVars>>
  /\ StoreFrame

\* Words.remove_word: the pool is re-read on success
Words_remove_word(word) ==
  /\ store_state = "ready"
  /\ LET r == db_remove_word(db, word)
     IN  /\ db' = r.rows
         /\ result' = r.ok
         /\ IF r.ok
              THEN words' \in get_random_words(r.rows, wm_difficulty)
              ELSE words' = words
  /\ last_op' = <<"remove_word", word \in Texts(db)>>
  /\ UNCHANGED <<table, store_state, wm_difficulty>>
  /\ StoreFrame

\* remove_word called on the store alone
remove_word(word) ==
  Words_remove_word(word) /\ UNCHANGED manageVars

\* Words.update_word: the pool is re-read on success
Words_update_word(old_word, new_word, difficulty) ==
  /\ store_state = "ready"
  /\ LET r == db_update_word(db, old_word, new_word, difficulty)
     IN  /\ db' = r.rows
         /\ result' = r.ok
         /\ IF r.ok
              THEN words' \in get_random_words(r.rows, wm_difficulty)
              ELSE words' = words
  /\ last_op' = <<"update_word", old_word \in Texts(db)>>
  /\ UNCHANGED <<table, store_state, wm_difficulty>>
  /\ StoreFrame

\* update_word called on the store alone
update_word(old_word, new_word, difficulty) ==
  Words_update_word(old_word, new_word, difficulty) /\ UNCHANGED manageVars

\* Words.set_difficulty called on the store alone
StoreSetDifficulty ==
  /\ store_state = "ready"
  /\ \E d \in Difficulties : set_difficulty(d)
  /\ StoreFrame

StoreNext ==
  \/ init_database
  \/ \E w \in StoreNames, d \in Difficulties : add_word(w, d)
  \/ \E w \in StoreNames : remove_word(w)
  \/ \E o, n \in StoreNames, d \in Difficulties : update_word(o, n, d)
  \/ StoreSetDifficulty

StoreSpec == StoreInit /\ [][StoreNext]_vars

\* ------------------------------------------ the word-management screen
\* The handlers of the manage screen (handle_events, lines 520-568) and the
\* EliasGame methods they call.  The text field and the difficulty dropdown
\* are read when a button is clicked, so what the player typed and chose is
\* an input of the click; the list shows the rows of the table, re-read
\* after every change, so a selected word is a stored word.  The message
\* line is display only and is not modelled.

\* the words table this run finds on disk: one easy word, no other
ManageStores == { {<<"c", "easy">>} }

\* the state after construction, on that table
ManageInit ==
  /\ db \in ManageStores
  /\ words = <<>>
  /\ wm_difficulty = "medium"
  /\ score = 0
  /\ current_word = None
  /\ game_active = FALSE
  /\ game_finished = FALSE
  /\ time_left = DEFAULT_GAME_DURATION
  /\ selected_time = DEFAULT_GAME_DURATION
  /\ start_time = 0
  /\ end_time = 0
  /\ current_screen = SCREEN_MENU
  /\ selected_difficulty = "medium"
  /\ timer_running = FALSE
  /\ pc = "loop"
  /\ tpc = [t \in Threads |-> "none"]
  /\ tcur = [t \in Threads |-> 0]
  /\ now = 0
  /\ round = 0
  /\ guessed = 0
  /\ skipped = 0
  /\ shown = <<>>
  /\ ignored = FALSE
  /\ tobs = [t \in Threads |-> FALSE]
  /\ table = "full"
  /\ store_state = "ready"
  /\ result = FALSE
  /\ last_op = <<"none", FALSE>>
  /\ word_being_edited = None
  /\ edits = 0

\* the texts the player types, stripped and lower-cased as the handlers
\* read them: nothing, a stored word, a new word
TypedTexts == {"", "c", "d"}

\* the word the player selects in the list, while it is stored
Selectable(store) == {"c"} \cap Texts(store)

\* the difficulty the player leaves in the dropdown
DropdownOptions == {"easy"}

\* every handler of the screen runs in the main loop, outside edit mode or
\* inside it
OnManage(editing) ==
  /\ pc = "loop"
  /\ current_screen = SCREEN_MANAGE
  /\ (word_being_edited # None) = editing

\* a click that only sets the message
MessageOnly == UNCHANGED vars

\* mutant: the "manage words" button also answers on the game screen
show_manage_screen_anyscreen ==
  /\ pc = "loop"
  /\ current_screen \in {SCREEN_MENU, SCREEN_GAME}
  /\ round < MaxRounds
  /\ current_screen' = SCREEN_MANAGE
  /\ word_being_edited' = None
  /\ UNCHANGED <<score, current_word, game_active, game_finished, time_left,
                 selected_time, start_time, end_time, selected_difficulty,
                 timer_running, db, words, wm_difficulty, table, store_state,
                 result, last_op, edits, timerVars, histVars, pc, now>>

\* menu screen, "manage words" button (while a round can still follow)
show_manage_screen ==
  /\ pc = "loop"
  /\ current_screen = SCREEN_MENU
  /\ round < MaxRounds
  /\ current_screen' = SCREEN_MANAGE
  /\ word_being_edited' = None
  /\ UNCHANGED <<score, current_word, game_active, game_finished, time_left,
                 selected_time, start_time, end_time, selected_difficulty,
                 timer_running, db, words, wm_difficulty, table, store_state,
                 result, last_op, edits, timerVars, histVars, pc, now>>

\* manage screen, "back" button (edit mode is not left)
ManageBack ==
  /\ pc = "loop"
  /\ current_screen = SCREEN_MANAGE
  /\ current_screen' = SCREEN_MENU
  /\ UNCHANGED <<score, current_word, game_active, game_finished, time_left,
                 selected_time, start_time, end_time, selected_difficulty,
                 timer_running, wordVars, timerVars, histVars, pc, now>>

\* "add" button: EliasGame.add_word
Manage_add_word ==
  /\ OnManage(FALSE)
  /\ \E word \in TypedTexts, difficulty \in DropdownOptions :
       IF word = "" \/ word_exists(db, word)
         THEN MessageOnly
         ELSE /\ edits < MaxEdits
              /\ Words_add_word(word, difficulty)
              /\ edits' = edits + 1
              /\ UNCHANGED word_being_edited

\* "delete" button: EliasGame.delete_word on the selected word, if any
Manage_delete_word ==
  /\ OnManage(FALSE)
  /\ \E selected \in Selectable(db) \cup {None} :
       IF selected = None
         THEN MessageOnly
         ELSE /\ edits < MaxEdits
              /\ Words_remove_word(selected)
              /\ edits' = edits + 1
              /\ UNCHANGED word_being_edited

\* "edit" button on a selected word: enter_edit_mode (entered while the
\* bound still allows the change it prepares)
enter_edit_mode ==
  /\ OnManage(FALSE)
  /\ edits < MaxEdits
  /\ \E selected \in Selectable(db) : word_being_edited' = selected
  /\ UNCHANGED <<gameVars, db, words, wm_difficulty, table, store_state,
                 result, last_op, edits, timerVars, histVars, pc, now>>

\* "save" button: EliasGame.update_word
Manage_update_word ==
  /\ OnManage(TRUE)
  /\ \E new_word \in TypedTexts \cup {word_being_edited},
        difficulty \in DropdownOptions :
       IF new_word = "" \/ (new_word # word_being_edited /\ word_exists(db, new_word))
         THEN MessageOnly
         ELSE /\ edits < MaxEdits
              /\ Words_update_word(word_being_edited, new_word, difficulty)
              /\ edits' = edits + 1
              /\ word_being_edited' = IF result' THEN None ELSE word_being_edited

\* "cancel" button: exit_edit_mode
exit_edit_mode ==
  /\ OnManage(TRUE)
  /\ word_being_edited' = None
  /\ UNCHANGED <<gameVars, db, words, wm_difficulty, table, store_state,
                 result, last_op, edits, timerVars, histVars, pc, now>>

ManageStep ==
  \/ show_manage_screen \/ ManageBack
  \/ Manage_add_word \/ Manage_delete_word
  \/ enter_edit_mode \/ Manage_update_word \/ exit_edit_mode

\* the game with the word-management screen
ManageNext == Next \/ ManageStep

ManageSpec == ManageInit /\ [][ManageNext]_vars

\* ------------------------------------------------ the console variant
\* src/main_refact.py: one Words object made at process start, and an
\* EliasGame whose start_game is called once and then again for every
\* "y" to "play again".  One thread; pc is the line the process is at.

\* Words.words of the console variant, scaled down to three words
ConsoleVocabulary == {"a", "b", "c"}
\* EliasGame.time_delay (10 s), scaled down to the longest duration
time_delay == MaxTime

ConsoleInit ==
  /\ pc = "main"
  /\ words = <<>>
  /\ score = 0
  /\ game_active = FALSE
  /\ end_time = 0
  /\ start_time = 0
  /\ current_word = None
  /\ now = 0
  /\ round = 0
  /\ guessed = 0
  /\ skipped = 0
  /\ shown = <<>>
  /\ db \in InitStores
  /\ wm_difficulty = "medium"
  /\ game_finished = FALSE
  /\ time_left = DEFAULT_GAME_DURATION
  /\ selected_time = DEFAULT_GAME_DURATION
  /\ current_screen = SCREEN_MENU
  /\ selected_difficulty = "medium"
  /\ timer_running = FALSE
  /\ tpc = [t \in Threads |-> "none"]
  /\ tcur = [t \in Threads |-> 0]
  /\ ignored = FALSE
  /\ tobs = [t \in Threads |-> FALSE]
  /\ table = "full"
  /\ store_state = "ready"
  /\ result = FALSE
  /\ last_op = <<"none", FALSE>>
  /\ word_being_edited = None
  /\ edits = 0

\* what the console program has not got
ConsoleFrame ==
  UNCHANGED <<game_finished, time_left, selected_time, current_screen,
              selected_difficulty, timer_running, db, wm_difficulty,
              storeVars, timerVars, ignored, tobs>>

\* words = Words(); game = EliasGame(words): the class list is shuffled
\* into the instance, once
ConsoleWords ==
  /\ pc = "main" /\ pc' = "start_game"
  /\ words' \in Perms(ConsoleVocabulary)
  /\ UNCHANGED <<score, current_word, game_active, start_time, end_time,
                 now, round, guessed, skipped, shown>>
  /\ ConsoleFrame

\* start_game up to its input(): start_time = time.time();
\* self.end_time = start_time + self.time_delay
Console_start_game ==
  /\ pc = "start_game" /\ pc' = "enter"
  /\ round < MaxRounds
  /\ start_time' = now
  /\ end_time' = now + time_delay * Resolution
  /\ round' = round + 1 /\ guessed' = 0 /\ skipped' = 0 /\ shown' = <<>>
  /\ UNCHANGED <<words, score, current_word, game_active, now>>
  /\ ConsoleFrame

\* the player presses Enter: self.score = 0; self.game_active = True
Console_enter ==
  /\ pc = "enter" /\ pc' = "game_loop"
  /\ score' = 0
  /\ game_active' = TRUE
  /\ UNCHANGED <<words, current_word, start_time, end_time, now, round,
                 guessed, skipped, shown>>
  /\ ConsoleFrame

\* game_loop: while time.time() < self.end_time: the next word, or break
\* on None; after the loop show_results and the "play again" prompt
Console_game_loop ==
  /\ pc = "game_loop"
  /\ IF now < end_time /\ ~pool_empty(words)
       THEN /\ current_word' = popped(words)
            /\ words' = pool_rest(words)
            /\ shown' = Append(shown, popped(words))
            /\ pc' = "input"
       ELSE /\ pc' = "again"
            /\ UNCHANGED <<current_word, words, shown>>
  /\ UNCHANGED <<score, game_active, start_time, end_time, now, round,
                 guessed, skipped>>
  /\ ConsoleFrame

\* user_input = input(): 'quit', 'y', 'n' or anything else
Console_input ==
  /\ pc = "input"
  /\ \E user_input \in {"quit", "y", "n", "other"} :
       /\ pc' = IF user_input = "quit" THEN "again" ELSE "game_loop"
       /\ game_active' = IF user_input = "quit" THEN FALSE ELSE game_active
       /\ score' = IF user_input = "y" THEN score + 1 ELSE score
       /\ guessed' = IF user_input = "y" THEN guessed + 1 ELSE guessed
       /\ skipped' = IF user_input = "n" THEN skipped + 1 ELSE skipped
  /\ UNCHANGED <<words, current_word, start_time, end_time, now, round, shown>>
  /\ ConsoleFrame

\* the "play again" prompt: 'y' calls start_game, 'n' leaves the program
\* (any other answer asks again)
Console_again ==
  /\ pc = "again"
  /\ \E again \in {"y", "n"} : pc' = IF again = "y" THEN "start_game" ELSE "exit"
  /\ UNCHANGED <<words, score, current_word, game_active, start_time,
                 end_time, now, round, guessed, skipped, shown>>
  /\ ConsoleFrame

\* one tick of wall-clock time
ConsoleTick ==
  /\ now < MaxNow
  /\ pc # "exit"
  /\ now' = now + 1
  /\ UNCHANGED <<words, score, current_word, game_active, start_time,
                 end_time, pc, round, guessed, skipped, shown>>
  /\ ConsoleFrame

ConsoleNext ==
  \/ ConsoleWords \/ Console_start_game \/ Console_enter
  \/ Console_game_loop \/ Console_input \/ Console_again
  \/ ConsoleTick

ConsoleSpec == ConsoleInit /\ [][ConsoleNext]_vars

\* ------------------------------------------------------------- claims
Click == ClickGuessed \/ ClickSkip
Finished == game_finished /\ ~game_active

\* C1: the score equals the number of guessed clicks accepted since the
\* most recent start_game, whatever skips and timer steps came between,
\* and no step within a round lowers it.
C1_ScoreCountsGuessed ==
  /\ [](score = guessed)
  /\ [][round' = round => score' >= score]_vars

\* one guess and one skip on the pool of two words: score 1
C1_Witness == guessed = 1 /\ skipped = 1 /\ score = 1 /\ Len(shown) = 2

\* C2: a guessed or skip click on a round that is not active changes
\* neither the score, the current word, the pool nor the status.
C2_InactiveClickIgnored ==
  [][Click /\ ~game_active =>
       UNCHANGED <<score, current_word, words, game_active, game_finished>>]_vars

\* a click was ignored on a finished round
C2_Witness == ignored /\ Finished /\ current_screen = SCREEN_GAME

\* C3: when start_game returns with an empty pool, the current word is
\* the "no words" sentinel and the round is finished with score 0.
C3_EmptyPoolFinished ==
  (pc = "loop" /\ current_word = NO_WORDS) => (Finished /\ score = 0)

\* C4: a guessed or skip click that arrives once the deadline has passed,
\* before a timer thread has ended the round, neither raises the score nor
\* advances the current word.
C4_LateClickNoOp ==
  [][Click /\ game_active /\ now >= end_time =>
       score' = score /\ current_word' = current_word]_vars

\* C5: a timer step that runs on an active round whose deadline has passed
\* leaves the round finished with time_left 0: when the thread completes the
\* writes of the expiry branch, game_active is false, game_finished is true
\* and time_left is 0.
C5_ExpiryFinishes ==
  [][\A t \in Threads :
       T_expire_finished(t) /\ tobs[t] =>
         ~game_active' /\ game_finished' /\ time_left' = 0]_vars

\* start_game has set this round's end_time (line 310)
DeadlineSet == pc \in {"L313", "L316", "loop"}

\* C6: the round stops being active only in a step taken when its own
\* deadline, the end_time set by its start_game, has passed, or in a word
\* advance that found the pool empty.
C6_FinishedOnlyByDeadlineOrExhaustion ==
  [][game_active /\ ~game_active' =>
       \/ DeadlineSet /\ now >= end_time
       \/ Click /\ pool_empty(words)]_vars

\* start_game has returned at least once
Started == round >= 1 /\ pc = "loop"

\* C7: every round that start_game has started is eventually finished
\* (the first half of the claim; the second half, that the results screen
\* then follows, has nothing to follow when this one fails).
C7_RoundEventuallyFinished == (Started /\ ~Finished) ~> Finished

\* C8: a guessed or skip click that finds the pool empty sets the current
\* word to the "all words used" sentinel and finishes the round in that
\* same step.
C8_ExhaustionFinishesAtOnce ==
  [][Click /\ game_active /\ pool_empty(words) =>
       current_word' = ALL_USED /\ ~game_active' /\ game_finished']_vars

\* a round ended by exhaustion before its deadline
C8_Witness ==
  /\ current_word = ALL_USED /\ Finished
  /\ guessed + skipped = 2 /\ now < end_time

\* number of places of sequence s that hold w
Count(s, w) == Cardinality({i \in 1..Len(s) : s[i] = w})
StoredWords == {r[1] : r \in db}

\* C9: right after set_difficulty(d) in start_game the pool holds every
\* stored word of difficulty d exactly once and no other word.
C9_PoolIsFilteredPermutation ==
  pc = "L316" =>
    \A w \in StoredWords \cup Range(words) :
      Count(words, w) = IF <<w, selected_difficulty>> \in db THEN 1 ELSE 0

\* the pool of the two medium words, in a store that also holds an easy one
C9_Witness ==
  /\ pc = "L316" /\ Len(words) = 2
  /\ \E r \in db : r[2] # selected_difficulty

IsSentinel(w) == w \in {None, NO_WORDS, ALL_USED}

\* C10: the words shown in one round are pairwise different, and each word,
\* when it becomes the current word, is a stored word of the selected
\* difficulty.
C10_NoWordShownTwice ==
  /\ [](\A i, j \in 1..Len(shown) : shown[i] = shown[j] => i = j)
  /\ [][/\ current_word' # current_word \/ (shown' # shown /\ shown' # <<>>)
        /\ ~IsSentinel(current_word')
        =>
          /\ shown' = Append(shown, current_word')
          /\ <<current_word', selected_difficulty>> \in db]_vars

\* both words of the medium pool have been shown
C10_Witness == Len(shown) = 2 /\ current_word = shown[2] /\ shown[1] # shown[2]

\* C11: the round status only moves forward: the one step that makes a
\* round active is start_game (its line 305), and a finished round stops
\* being finished only in a step of start_game; no timer step and no word
\* advance turns a finished round back into an active one.
C11_StatusOnlyForward ==
  [][/\ (~game_active /\ game_active' => Confirm)
     /\ (Finished /\ ~Finished' => Confirm \/ start_game)
     /\ (Finished /\ (Click \/ \E t \in Threads : timer_function(t)) => Finished')]_vars

\* a timer thread is inside its loop body on a finished round
C11_Witness ==
  /\ Finished /\ pc = "loop"
  /\ \E t \in Threads : tpc[t] \in {"L294", "L295", "L297", "L298", "L299"}

\* C12: when start_game completes (its last step, lines 316-321), the score
\* is 0, the round is active, end_time is start_time plus the selected
\* duration and the current word is the first popped word or the "no
\* words" sentinel, whatever a timer thread did in between.
C12_StartGameEstablishes ==
  [][SG_first_word =>
       /\ score' = 0
       /\ game_active'
       /\ end_time' = start_time' + selected_time' * Resolution
       /\ current_word' = IF pool_empty(words) THEN NO_WORDS ELSE popped(words)]_vars

\* the stored words of one difficulty
WordsOf(difficulty) == {r[1] : r \in {q \in db : q[2] = difficulty}}

\* C13: every start_game begins a fresh round: once it has called
\* set_difficulty the pool is the complete set of stored words of the
\* selected difficulty, the words an earlier round consumed included, and
\* the score is 0.
C13_FreshRound ==
  pc = "L316" =>
    /\ Range(words) = WordsOf(selected_difficulty)
    /\ Len(words) = Cardinality(WordsOf(selected_difficulty))
    /\ score = 0

\* the second round's pool holds again the word that the first round
\* popped and left on the screen
C13_Witness ==
  /\ pc = "L316" /\ round = 2
  /\ current_word \in Range(words)
  /\ Len(words) = 2

\* a round is under way: start_game is running, or it has returned and
\* the round is not finished yet
InRound == pc # "loop" \/ (round >= 1 /\ ~Finished)

\* C14: the configuration of a round, selected_difficulty and
\* selected_time, does not change from start_game until the round is
\* finished, whatever the player does.
C14_ConfigImmutable ==
  [][InRound => UNCHANGED <<selected_difficulty, selected_time>>]_vars

\* a second round, of a difficulty chosen on the difficulty screen, is
\* active and the player has clicked in it
C14_Witness ==
  /\ round = 2 /\ game_active /\ pc = "loop"
  /\ selected_difficulty = "medium" /\ wm_difficulty = "medium"
  /\ skipped = 1

\* C15: once start_game has returned and the round is finished, a step of
\* a timer thread changes neither time_left, the status, the score nor the
\* current word.
C15_TimerNoOpWhenFinished ==
  [][Finished /\ pc = "loop" /\ (\E t \in Threads : timer_function(t)) =>
       UNCHANGED <<time_left, game_active, game_finished, score, current_word>>]_vars

\* the three writes of the expiry branch (lines 297-299)
Expiry(t) == T_expire_time(t) \/ T_expire_active(t) \/ T_expire_finished(t)

\* C16: the steps by which a timer thread ends a round at expiry leave the
\* current word, the score and the remaining pool as they were.
C16_ExpiryKeepsWord ==
  [][(\E t \in Threads : Expiry(t)) => UNCHANGED <<current_word, score, words>>]_vars

\* a round ended by the timer with a word on the screen and one in the pool
C16_Witness ==
  /\ Finished /\ time_left = 0 /\ pc = "loop"
  /\ ~IsSentinel(current_word) /\ Len(words) = 1
  /\ \A t \in Threads : tpc[t] \in {"none", "loop", "done"}

\* the least number of whole seconds that covers x ticks
CeilSeconds(x) == (x + Resolution - 1) \div Resolution

\* C17: on an active round whose deadline lies ahead, the remaining time
\* the timer stores for display is ceil(end_time - now) and not negative.
C17_DisplayIsCeiling ==
  [][\A t \in Threads :
       T_update(t) /\ game_active /\ tcur[t] < end_time =>
         /\ time_left' = CeilSeconds(end_time - tcur[t])
         /\ time_left' >= 0]_vars

\* C18: on a first run, with no words table in the file, init_database
\* completes without error and leaves the default vocabulary in the
\* store; on a table that holds words it adds nothing.
C18_InitSeedsOrKeeps ==
  /\ [](last_op = <<"init_database", FALSE>> =>
          store_state = "ready" /\ db = default_words)
  /\ [][init_database /\ table = "full" /\ db # {} => db' = db]_vars

\* C19: update_word on a word that is not in the store returns False and
\* leaves the store as it was.
C19_RenameMissingFails ==
  [][\A o, n \in StoreNames, d \in Difficulties :
       update_word(o, n, d) /\ o \notin Texts(db) => ~result' /\ db' = db]_vars

\* C20: remove_word on a word that is not in the store returns False and
\* leaves the stored words and their difficulties as they were.
C20_RemoveMissingFails ==
  [][\A w \in StoreNames :
       remove_word(w) /\ w \notin Texts(db) => ~result' /\ db' = db]_vars

\* a removal of a missing word was answered with False on a store that
\* holds other words
C20_Witness ==
  /\ last_op = <<"remove_word", FALSE>>
  /\ ~result
  /\ db # {}

\* C21: add_word with a text that is already stored returns False and
\* leaves the store, the stored word's difficulty included, as it was.
C21_AddDuplicateRejected ==
  [][\A w \in StoreNames, d \in Difficulties :
       add_word(w, d) /\ word_exists(db, w) =>
         /\ ~result'
         /\ db' = db
         /\ get_word_info(db', w) = get_word_info(db, w)]_vars

\* an add of a stored word was answered with False
C21_Witness ==
  /\ last_op = <<"add_word", TRUE>>
  /\ ~result
  /\ db # {}

\* C22: renaming a stored word A to the text of another stored word B
\* returns False and leaves both rows as they were; renaming A to its own
\* text with a difficulty is accepted and changes the difficulty of A only.
C22_RenameCollisionRejected ==
  [][\A o, n \in StoreNames, d \in Difficulties :
       update_word(o, n, d) /\ word_exists(db, o) =>
         /\ n # o /\ word_exists(db, n) => ~result' /\ db' = db
         /\ n = o =>
              /\ result'
              /\ get_word_info(db', o) = {<<o, d>>}
              /\ \A w \in StoreNames \ {o} :
                   get_word_info(db', w) = get_word_info(db, w)]_vars

\* a rename of a stored word was refused on a store of several words
C22_Witness ==
  /\ last_op = <<"update_word", TRUE>>
  /\ ~result
  /\ Cardinality(db) >= 2

\* C23: no two rows of the store have the same text.
C23_TextsUnique ==
  \A r1, r2 \in db : r1[1] = r2[1] => r1 = r2

\* an add, a removal or a rename has succeeded on a store of several words
C23_Witness ==
  /\ last_op[1] \in {"add_word", "remove_word", "update_word"}
  /\ result
  /\ Cardinality(db) >= 3

\* C24: after a successful add_word(x, d) the word exists and every
\* listing of difficulty d contains it; after a successful remove_word(x)
\* the word does not exist and no listing contains it.
C24_StoreRoundTrip ==
  [][/\ \A w \in StoreNames, d \in Difficulties :
          add_word(w, d) /\ result' =>
            /\ word_exists(db', w)
            /\ \A l \in get_words_by_difficulty(db', d) : w \in Range(l)
            /\ \A l \in get_random_words(db', d) : w \in Range(l)
     /\ \A w \in StoreNames :
          remove_word(w) /\ result' =>
            /\ ~word_exists(db', w)
            /\ w \notin Texts(get_all_words(db'))
            /\ \A d \in Difficulties :
                 \A l \in get_words_by_difficulty(db', d) : w \notin Range(l)]_vars

\* a removal has succeeded and left other words in the store
C24_Witness ==
  /\ last_op = <<"remove_word", TRUE>>
  /\ result
  /\ db # {}

\* the timer threads that have been started and have not returned
Running == {t \in Threads : tpc[t] \notin {"none", "done"}}

\* C25: the timer thread of a round stops with its round: at most one
\* timer thread is running at any time, and a thread writes only to the
\* round that started it.
C25_OneTimerThread ==
  /\ [](Cardinality(Running) <= 1)
  /\ [][\A t \in Threads : T_update(t) \/ Expiry(t) => t = round]_vars

\* C26: on the results screen a round has been started and is finished,
\* and the screen is left only by "play again", to the difficulty screen.
C26_ResultsOnlyAfterRound ==
  /\ [](current_screen = SCREEN_RESULTS =>
          round >= 1 /\ game_finished /\ ~game_active)
  /\ [][current_screen = SCREEN_RESULTS /\ current_screen' # SCREEN_RESULTS =>
          ResultsReplay /\ current_screen' = SCREEN_DIFFICULTY]_vars

\* the results of a second round are shown while a timer thread still runs
C26_Witness ==
  /\ current_screen = SCREEN_RESULTS /\ round = 2
  /\ Running # {}

\* C28: game_active and game_finished are never both true, and on the game
\* screen exactly one of them is true, in every state, those inside the
\* expiry writes of a timer thread and inside start_game included.
C28_ExactlyOneFlag ==
  /\ ~(game_active /\ game_finished)
  /\ current_screen = SCREEN_GAME => (game_active # game_finished)

RECURSIVE SumOf(_)
\* sum(counts.values()) of a dict
SumOf(f) ==
  IF DOMAIN f = {} THEN 0
  ELSE LET k == CHOOSE x \in DOMAIN f : TRUE
       IN  f[k] + SumOf([x \in DOMAIN f \ {k} |-> f[x]])

\* C30: get_word_count_by_difficulty gives, for every difficulty, the
\* number of stored words of that difficulty (a difficulty it leaves out
\* has none), and its values add up to get_word_count().
C30_CountsAgree ==
  store_state = "ready" =>
    LET counts == get_word_count_by_difficulty(db)
    IN  /\ \A d \in Difficulties :
             Cardinality(WordsOf(d)) = IF d \in DOMAIN counts THEN counts[d] ELSE 0
        /\ SumOf(counts) = get_word_count(db)

\* a store changed by a rename, with words of all three difficulties, two
\* of them of the same one
C30_Witness ==
  /\ last_op = <<"update_word", TRUE>> /\ result
  /\ DOMAIN get_word_count_by_difficulty(db) = Difficulties
  /\ get_word_count(db) = 4

\* C27: in the console variant every start_game begins with the full
\* vocabulary in the pool.
C27_ConsoleFreshRound ==
  [][Console_start_game =>
       /\ Range(words) = ConsoleVocabulary
       /\ Len(words) = Cardinality(ConsoleVocabulary)]_vars

\* C29: whenever the main loop is between two handlers, an active round is
\* on the game screen; a word-management operation (every one is counted
\* in edits and is the only change of the words table) runs on the manage
\* screen with no round active; and between handlers the pool of an active
\* round changes only by losing its last word.
C29_NoManageDuringRound ==
  /\ [](pc = "loop" /\ game_active => current_screen = SCREEN_GAME)
  /\ [][edits' # edits \/ db' # db =>
          ~game_active /\ current_screen = SCREEN_MANAGE]_vars
  /\ [][pc = "loop" /\ game_active /\ words' # words =>
          words' = pool_rest(words)]_vars

\* a round is active after a word was added on the manage screen: its pool
\* held both words and lost the added one by a click's pop
C29_Witness ==
  /\ edits = 1 /\ last_op = <<"add_word", FALSE>> /\ result
  /\ pc = "loop" /\ game_active /\ current_screen = SCREEN_GAME
  /\ shown = <<"c", "d">> /\ current_word = "d" /\ words = <<>>

=============================================================================
